---- MODULE Spec2Model ----
(***************************************************************************)
(* State-machine model of the Pokemon Blaze Online bot. Its macOS program  *)
(* (src/PBObotMac.py): the operator-facing BotGUI handlers, the BotThread   *)
(* workers they start, the encounter detector, the name matcher and the    *)
(* watchdog. Its Windows program (src/pbobotplus.py): the loop of main().   *)
(*                                                                         *)
(* Time is counted in clock units of 50 ms, the largest unit in which      *)
(* every sleep and hold time of the source is a whole number.              *)
(***************************************************************************)
EXTENDS Integers, Sequences, FiniteSets, TLC

----------------------------------------------------------------------------
(* Program constants, in clock units of 50 ms.                             *)

\* next_check_time = last_encounter_time + 10 (seconds)
WatchdogInterval == 200
\* press_key_mac(key_str, hold_time=0.25)
MoveHold == 5
\* press_key_mac(key_str, hold_time=0.1) in defeat_wild_pokemon
FightHold == 2
\* time.sleep(0.1) after defeat_wild_pokemon
SettleSleep == 2
\* time.sleep(0.1) at the end of a tick
PollSleep == 2
\* time.sleep(0.2) while paused
PauseSleep == 4
\* pbobotplus.py: press_key(hwnd, key_code, hold_time=0.25)
WinMoveHold == 5
\* pbobotplus.py: press_key(hwnd, 0x33, hold_time=0.1)
WinFightHold == 2
\* pbobotplus.py: time.sleep(0.25) after defeat_wild_pokemon
WinSettleSleep == 5
\* _is_similar(..., threshold=0.7), in tenths
ThresholdTenths == 7
\* is_reddish_in_region(lower_thresh=(150,0,0), upper_thresh=(255,100,100))
RedLow == 150
RedHigh == 255
GreenBlueHigh == 100
\* pbobotplus.py: (r > 150) and (g < 100) and (b < 100)
WinRedAbove == 150
WinGreenBlueBelow == 100

----------------------------------------------------------------------------
(* Bounds of the model.                                                    *)

\* threads the operator can create in one behaviour
MaxWorkers == 2
\* last clock reading the model distinguishes (the clock saturates there)
ClockMax == 420
\* encounters one worker can confirm
MaxEncounters == 1
\* length of the target list
MaxTargets == 2
\* configuration edits (region field, move, target list) by the operator
MaxEdits == 1
\* extra clock units a capture may take
MaxLatency == 1
\* largest pointer coordinate on the calibration canvas
MaxCoord == 1
\* messages on the log channel the model records
MaxLog == 5
\* the clock readings between which the operator pauses and resumes, and up
\* to which the detector reports encounters, in the runs with a running clock
PauseFrom == 190
PauseUntil == 210
EncounterUntil == 16

Workers == 1..MaxWorkers
\* the threads of the process: 0 is the main thread, which runs the Tk main
\* loop of PBObotMac.py or main() of pbobotplus.py
Threads == 0..MaxWorkers

----------------------------------------------------------------------------
(* Text: strings are sequences of one-character strings.                   *)

UpperCase == <<"A","B","C","D","E","F","G","H","I","J","K","L","M",
               "N","O","P","Q","R","S","T","U","V","W","X","Y","Z">>
LowerCase == <<"a","b","c","d","e","f","g","h","i","j","k","l","m",
               "n","o","p","q","r","s","t","u","v","w","x","y","z">>
WhiteSpace == {" ", "\n", "\t"}

\* str.lower(), one character
LowerChar(c) ==
    IF \E i \in 1..26 : UpperCase[i] = c
    THEN LowerCase[CHOOSE i \in 1..26 : UpperCase[i] = c]
    ELSE c

\* str.lower()
Lower(s) == [i \in 1..Len(s) |-> LowerChar(s[i])]

\* str.strip(): drop leading and trailing whitespace
Strip(s) ==
    LET keep == {i \in 1..Len(s) : s[i] \notin WhiteSpace}
    IN  IF keep = {} THEN <<>>
        ELSE LET lo == CHOOSE i \in keep : \A j \in keep : i <= j
                 hi == CHOOSE i \in keep : \A j \in keep : i >= j
             IN  SubSeq(s, lo, hi)

Garchomp  == <<"G","a","r","c","h","o","m","p">>
Rattata   == <<"R","a","t","t","a","t","a">>
\* "Garchomp" as the recogniser misreads it: lower case, m read as rn
Garchornp == <<"g","a","r","c","h","o","r","n","p">>
Empty     == <<>>
\* Python's None
None      == <<>>
\* the target list of pbobotplus.py
Electivire == <<"E","l","e","c","t","i","v","i","r","e">>
Dustox    == <<"D","u","s","t","o","x">>
\* "Dustox" as the recogniser misreads it
Dustcx    == <<"D","u","s","t","c","x">>

\* what the operator may type into the name entry
EntryNames == {Empty, <<" ">>, Garchomp, Rattata, <<" ">> \o Rattata}
\* what pytesseract.image_to_string may return for the name region
OcrOutputs == {Empty, <<"\n">>, Garchomp \o <<"\n">>, Garchornp \o <<"\n">>,
               Rattata \o <<"\n">>}
\* what pytesseract.image_to_string may return in pbobotplus.py
WinOcrOutputs == {Empty, Dustox \o <<"\n">>, Dustcx \o <<"\n">>, Rattata \o <<"\n">>}
RecognizedNames == {Strip(t) : t \in OcrOutputs \cup WinOcrOutputs}
\* target_pokemons lists a configuration file may hold
ConfigTargets == {<<Garchomp>>, <<Empty>>, <<Rattata, Empty>>}
TargetNames == {Strip(t) : t \in EntryNames} \cup {Electivire, Dustox}

(* difflib.SequenceMatcher(None, a, b): the longest matching block, the    *)
(* earliest in a and then in b among the longest, and recursively the      *)
(* pieces to its left and to its right.                                    *)
BlockAt(a, b, i, j, k) ==
    /\ i + k - 1 <= Len(a)
    /\ j + k - 1 <= Len(b)
    /\ \A d \in 0..(k - 1) : a[i + d] = b[j + d]

LongestBlock(a, b) ==
    LET cands == {t \in (1..Len(a)) \X (1..Len(b)) \X (1..Len(a)) :
                     BlockAt(a, b, t[1], t[2], t[3])}
        Better(s, t) == \/ s[3] > t[3]
                        \/ s[3] = t[3] /\ s[1] < t[1]
                        \/ s[3] = t[3] /\ s[1] = t[1] /\ s[2] <= t[2]
    IN  IF cands = {} THEN <<1, 1, 0>>
        ELSE CHOOSE s \in cands : \A t \in cands : Better(s, t)

RECURSIVE MatchCount(_, _)
MatchCount(a, b) ==
    IF Len(a) = 0 \/ Len(b) = 0 THEN 0
    ELSE LET m == LongestBlock(a, b)
         IN  IF m[3] = 0 THEN 0
             ELSE m[3]
                  + MatchCount(SubSeq(a, 1, m[1] - 1), SubSeq(b, 1, m[2] - 1))
                  + MatchCount(SubSeq(a, m[1] + m[3], Len(a)),
                               SubSeq(b, m[2] + m[3], Len(b)))

\* SequenceMatcher.ratio() >= threshold, with ratio = 2*M/T and 1.0 when T = 0
RatioAtLeast(a, b, tenths) ==
    LET T == Len(a) + Len(b)
    IN  IF T = 0 THEN 10 >= tenths
        ELSE 20 * MatchCount(a, b) >= tenths * T

\* BotThread._is_similar(name, target, threshold=0.7), and is_similar of
\* pbobotplus.py, which is the same function
IsSimilarDef(name, target) == RatioAtLeast(Lower(name), Lower(target), ThresholdTenths)

\* _is_similar over the texts of the model, computed once
SimilarTable == [p \in (RecognizedNames \X TargetNames) |-> IsSimilarDef(p[1], p[2])]

_is_similar(name, target) == SimilarTable[<<name, target>>]

\* any(self._is_similar(pokemon_name, t) for t in self.target_pokemons)
AnySimilar(name, targets) == \E i \in 1..Len(targets) : _is_similar(name, targets[i])

----------------------------------------------------------------------------
(* Region entry fields and their parsing.                                  *)

FieldNames == {"pb_x", "pb_y", "pb_w", "pb_h", "nm_x", "nm_y", "nm_w", "nm_h"}
\* texts an entry field may hold
EntryTexts == {"0", "20", "x", ""}
\* the edits of a region field the operator makes: a width and a height of
\* zero, a text that is no integer, an emptied field
FieldEdits == {<<"pb_w", "0">>, <<"nm_h", "0">>, <<"pb_x", "x">>, <<"nm_y", "">>}

\* int(text) succeeds
IsIntText(s) == s \in {"0", "20"}
\* int(text)
IntOf(s) == CASE s = "0" -> 0 [] s = "20" -> 20

\* (int(pb_x.get()), int(pb_y.get()), int(pb_w.get()), int(pb_h.get()))
RegionOf(e, x, y, w, h) == <<IntOf(e[x]), IntOf(e[y]), IntOf(e[w]), IntOf(e[h])>>

\* a region of zero width or zero height
Degenerate(r) == r[3] = 0 \/ r[4] = 0

----------------------------------------------------------------------------
(* Captured images: a sequence of (R, G, B) pixels, or NoImage when the    *)
(* capture provider returns None.                                          *)

NoImage == <<<<-1, -1, -1>>>>
Snapshots == { <<<<150, 0, 0>>>>,
               <<<<0, 0, 0>>, <<255, 100, 100>>>>,
               <<<<149, 0, 0>>, <<255, 101, 0>>, <<200, 50, 101>>>>,
               <<<<30, 30, 30>>>> }

\* what the capture provider may give for the window
Images == Snapshots \cup {NoImage}
\* what it may give when the name is read: the recogniser's text is drawn
\* apart from the pixels
NameImages == {<<<<30, 30, 30>>>>, NoImage}

\* capture_window_mac(window_id, window_bounds, region): the crop of an
\* available window to region; a region of no width or height crops to no pixel
capture_window_mac(img, region) ==
    IF img = NoImage THEN NoImage
    ELSE IF Degenerate(region) THEN <<>> ELSE img

\* cv2.inRange on one pixel, bounds inclusive
InRange(px) ==
    /\ RedLow <= px[1] /\ px[1] <= RedHigh
    /\ 0 <= px[2] /\ px[2] <= GreenBlueHigh
    /\ 0 <= px[3] /\ px[3] <= GreenBlueHigh

\* cv2.cvtColor raises on an image without pixels
CvtColorRaises(img) == img # NoImage /\ Len(img) = 0

\* is_reddish_in_region(...) when it returns
is_reddish_in_region(img) ==
    IF img = NoImage THEN FALSE
    ELSE \E i \in 1..Len(img) : InRange(img[i])

\* get_pokemon_name(...) when it returns: "" without an image, else the
\* stripped text of the recogniser
get_pokemon_name(img, text) == IF img = NoImage THEN Empty ELSE Strip(text)

----------------------------------------------------------------------------
(* Keys.                                                                   *)

MAC_KEYCODES == {"left_arrow", "right_arrow", "down_arrow", "up_arrow",
                 "1", "2", "3", "4", "r"}
MoveKeys == {"left_arrow", "right_arrow"}
\* the options of the move dropdown, and the keys of move_map
MoveOptions == {"1", "2", "3", "4", "r"}
\* preferred_move values a configuration file may hold
ConfigMoves == {"1", "5"}

\* a fight that ignores the configured move
MoveMapGet_Default(choice) == "1"

\* move_map.get(self.move_choice, "1")
MoveMapGet(choice) == IF choice \in MoveOptions THEN choice ELSE "1"

\* the keys press_key_mac(key_str) posts
press_key_mac(key_str) == IF key_str \in MAC_KEYCODES THEN <<key_str>> ELSE <<>>

\* a direction that is never toggled
BushDir_Stuck(dir) == dir

\* move_in_bushes: the key for the direction, and the direction after it
BushKey(dir) == IF dir = 0 THEN "right_arrow" ELSE "left_arrow"

BushDir(dir) == IF dir = 0 THEN 1 ELSE 0

----------------------------------------------------------------------------
VARIABLES
    \* BotGUI
    window_id,          \* TRUE once find_pbo_window found the window
    entry,              \* the texts of the eight region entry fields
    target_pokemons,    \* the list object shared by BotGUI and every BotThread
    move_choice_var,
    stop_event,
    pause_event,
    pause_btn,          \* the text of the pause button
    bot_thread,         \* the last thread created, 0 for None
    created,            \* threads created so far
    edits,              \* configuration edits made so far
    \* calibrate_two_regions, the locals of the session
    calib_win,          \* "none", "open" or "destroyed"
    start_x,
    start_y,
    current_rect_id,
    result,
    region_index,
    \* the log channel
    log_queue,          \* queue.Queue of ("LOG", message), oldest first
    log_text,           \* the messages inserted into the log widget, oldest first
    log_sent,           \* every message put on the queue, in the order of the puts
    log_left,           \* messages the model still records
    \* pbobotplus.py
    last_direction,
    \* where each thread is; per BotThread:
    pc,
    pokeball_region,
    name_region,
    move_choice,
    last_dir,
    encounter_count,
    last_encounter_time,
    next_check_time,
    \* environment
    now,                \* what time.time() returns
    emit,               \* what the last step did to the outside
    \* history, per thread
    started_at,         \* the clock reading run() started from
    alerts,             \* the clock readings of the "no encounters" alerts
    last_move_key,      \* the last directional key of the run
    last_inject,        \* "move" or "combat": the kind of the last key
    targets_at_start    \* the target list when start_bot created the thread

guiVars == <<window_id, entry, target_pokemons, move_choice_var, stop_event,
             pause_event, pause_btn, bot_thread, created, edits>>
cfgVars == <<pokeball_region, name_region, move_choice>>
loopVars == <<last_dir, encounter_count, last_encounter_time, next_check_time>>
histVars == <<started_at, alerts, last_move_key, last_inject, targets_at_start>>
calibVars == <<calib_win, start_x, start_y, current_rect_id, result, region_index>>
logVars == <<log_queue, log_text, log_sent, log_left>>
vars == <<guiVars, calibVars, logVars, last_direction, pc, cfgVars, loopVars, now, emit,
          histVars>>

\* emit: who stepped (0: the operator's thread) and where, the keys posted,
\* whether the alert sound was played, the external queries made, the
\* recognised name, the images the step captured (none, or the one the
\* capture returned: NoImage, or the crop to the region), the pointer
\* event the step handled (none, or its coordinates), and the messages a
\* step of BotThread.run logged
Out(who, op, keys, beep, queries, name) ==
    [who |-> who, op |-> op, keys |-> keys, beep |-> beep, queries |-> queries,
     name |-> name, capture |-> <<>>, event |-> <<>>, logs |-> <<>>]
\* the effects o of a step whose capture returned img
Captured(o, img) == [o EXCEPT !.capture = <<img>>]
Gui == Out(0, "gui", <<>>, FALSE, {}, Empty)
\* a handler of the pointer event at (x, y)
Pointer(op, x, y) == [Gui EXCEPT !.op = op, !.event = <<x, y>>]

\* start_bot
Starting == [Gui EXCEPT !.op = "start_bot"]
\* stop_bot setting stop_event and clearing pause_event, which was set or not
Stopping(paused) == [Gui EXCEPT !.op = IF paused THEN "stop_paused" ELSE "stop"]

\* the messages thread who puts with texts: each is known by its thread and
\* its place among the puts
Messages(who, texts) ==
    [i \in 1..Len(texts) |-> <<who, Len(log_sent) + i>>]

\* a queue that hands out the newest message first
Put_Lifo(q, msgs) == [i \in 1..(Len(msgs) + Len(q)) |->
                        IF i <= Len(msgs) THEN msgs[Len(msgs) + 1 - i]
                        ELSE q[i - Len(msgs)]]

\* log_queue.put(("LOG", message)) for each message of msgs
Put(q, msgs) == q \o msgs

\* the step with external effects o that logs texts, as far as the model
\* still records messages
Emit(o, texts) ==
    LET k == IF Len(texts) < log_left THEN Len(texts) ELSE log_left
        msgs == Messages(o.who, SubSeq(texts, 1, k))
    IN  /\ emit' = [o EXCEPT !.logs = IF o.who \in Workers THEN texts ELSE <<>>]
        /\ log_queue' = Put(log_queue, msgs)
        /\ log_sent' = log_sent \o msgs
        /\ log_left' = log_left - k
        /\ UNCHANGED log_text

Running == {"check_stop", "check_pause", "detect", "identify", "watchdog"}
\* Thread.is_alive(): started and run() not yet returned or raised
Alive(w) == pc[w] \in Running \cup {"start"}
Exited(w) == pc[w] \in {"stopped", "alerted", "crashed"}

\* the clock after d more units; readings past ClockMax are not distinguished
Elapse(d) == IF now + d > ClockMax THEN ClockMax ELSE now + d
\* the extra clock units a capture may take
Latencies == IF now = ClockMax THEN {0} ELSE 0..MaxLatency

\* the state after BotGUI.__init__, with the clock reading t, c of the
\* MaxWorkers threads and e of the MaxEdits edits already spent, and
\* preferred_move and target_pokemons loaded from a configuration holding one
\* of moves and one of lists, and l messages of the log still to record
InitFrom(t, c, e, moves, lists, l) ==
    /\ log_queue = <<>>
    /\ log_text = <<>>
    /\ log_sent = <<>>
    /\ log_left = l
    /\ window_id = FALSE
    /\ entry = [f \in FieldNames |-> "20"]
    /\ target_pokemons \in lists
    /\ move_choice_var \in moves
    /\ stop_event = FALSE
    /\ pause_event = FALSE
    /\ pause_btn = "Pause"
    /\ bot_thread = 0
    /\ created = c
    /\ edits = e
    /\ calib_win = "none"
    /\ start_x = 0
    /\ start_y = 0
    /\ current_rect_id = None
    /\ result = <<None, None>>
    /\ region_index = 0
    /\ last_direction = "right"
    /\ pc = [w \in Threads |-> IF w = 0 THEN "gui" ELSE "new"]
    /\ pokeball_region = [w \in Workers |-> <<0, 0, 0, 0>>]
    /\ name_region = [w \in Workers |-> <<0, 0, 0, 0>>]
    /\ move_choice = [w \in Workers |-> "1"]
    /\ last_dir = [w \in Workers |-> 0]
    /\ encounter_count = [w \in Workers |-> 0]
    /\ last_encounter_time = [w \in Workers |-> 0]
    /\ next_check_time = [w \in Workers |-> 0]
    /\ now = t
    /\ emit = Gui
    /\ started_at = [w \in Workers |-> 0]
    /\ alerts = [w \in Workers |-> <<>>]
    /\ last_move_key = [w \in Threads |-> "none"]
    /\ last_inject = [w \in Threads |-> "none"]
    /\ targets_at_start = [w \in Workers |-> <<>>]

\* the state after BotGUI.__init__ without a configuration file of target names
InitWith(t, c, e, moves) == InitFrom(t, c, e, moves, {<<Garchomp>>}, 0)

\* the operator's control surface and up to MaxWorkers threads; the clock is
\* past the readings the model distinguishes
Init == InitWith(ClockMax, 0, MaxEdits, {"1"})

----------------------------------------------------------------------------
(* BotGUI handlers. Each runs to completion on the Tk main thread.         *)

find_pbo_window ==
    /\ pc[0] = "gui"
    /\ UNCHANGED <<calibVars, last_direction>>
    /\ \E found \in BOOLEAN :
          IF found
          THEN /\ window_id' = TRUE
               /\ Emit(Gui, <<"Found window">>)
          ELSE /\ UNCHANGED window_id
               /\ Emit(Gui, <<"Window not found">>)
    /\ UNCHANGED <<entry, target_pokemons, move_choice_var, stop_event, pause_event,
                   pause_btn, bot_thread, created, edits>>
    /\ UNCHANGED <<pc, cfgVars, loopVars, now, histVars>>

\* the operator types into one region entry field
edit_region_field ==
    /\ pc[0] = "gui"
    /\ UNCHANGED <<calibVars, last_direction>>
    /\ edits < MaxEdits
    /\ \E e \in FieldEdits : entry' = [entry EXCEPT ![e[1]] = e[2]]
    /\ edits' = edits + 1
    /\ Emit(Gui, <<>>)
    /\ UNCHANGED <<window_id, target_pokemons, move_choice_var, stop_event,
                   pause_event, pause_btn, bot_thread, created>>
    /\ UNCHANGED <<pc, cfgVars, loopVars, now, histVars>>

on_move_changed ==
    /\ pc[0] = "gui"
    /\ UNCHANGED <<calibVars, last_direction>>
    /\ edits < MaxEdits
    /\ \E choice \in MoveOptions : move_choice_var' = choice
    /\ edits' = edits + 1
    /\ Emit(Gui, <<"Preferred move changed">>)
    /\ UNCHANGED <<window_id, entry, target_pokemons, stop_event, pause_event,
                   pause_btn, bot_thread, created>>
    /\ UNCHANGED <<pc, cfgVars, loopVars, now, histVars>>

add_pokemon ==
    /\ pc[0] = "gui"
    /\ UNCHANGED <<calibVars, last_direction>>
    /\ edits < MaxEdits
    /\ \E typed \in EntryNames :
          LET new_poke == Strip(typed)
          IN  IF new_poke # Empty
              THEN /\ Len(target_pokemons) < MaxTargets
                   /\ target_pokemons' = Append(target_pokemons, new_poke)
                   /\ Emit(Gui, <<"Added new target">>)
              ELSE /\ UNCHANGED target_pokemons
                   /\ Emit(Gui, <<>>)
    /\ edits' = edits + 1
    /\ UNCHANGED <<window_id, entry, move_choice_var, stop_event, pause_event,
                   pause_btn, bot_thread, created>>
    /\ UNCHANGED <<pc, cfgVars, loopVars, now, histVars>>

\* list.remove(x): the list without the first item equal to x
ListRemove(l, x) ==
    LET i == CHOOSE k \in 1..Len(l) : l[k] = x /\ \A j \in 1..(k - 1) : l[j] # x
    IN  SubSeq(l, 1, i - 1) \o SubSeq(l, i + 1, Len(l))

remove_pokemon ==
    /\ pc[0] = "gui"
    /\ UNCHANGED <<calibVars, last_direction>>
    /\ edits < MaxEdits
    /\ \E typed \in EntryNames :
          LET poke_to_remove == Strip(typed)
          IN  IF poke_to_remove # Empty
              THEN IF \E k \in 1..Len(target_pokemons) : target_pokemons[k] = poke_to_remove
                   THEN /\ target_pokemons' = ListRemove(target_pokemons, poke_to_remove)
                        /\ Emit(Gui, <<"Removed target">>)
                   ELSE /\ UNCHANGED target_pokemons
                        /\ Emit(Gui, <<"Not found in list">>)
              ELSE /\ UNCHANGED target_pokemons
                   /\ Emit(Gui, <<>>)
    /\ edits' = edits + 1
    /\ UNCHANGED <<window_id, entry, move_choice_var, stop_event, pause_event,
                   pause_btn, bot_thread, created>>
    /\ UNCHANGED <<pc, cfgVars, loopVars, now, histVars>>

\* pointer coordinates of an event on the calibration canvas; a drag may end
\* left of or above the canvas
Coords == (-1)..MaxCoord

\* calibrate_regions up to the nested calib_win.mainloop(): the session opens
\* with its locals, unless the window was not found or cannot be captured.
\* calib_win.mainloop() runs the main loop of the application, which goes on
\* while the root window exists: calib_win.destroy() does not end it, so the
\* rest of calibrate_regions (the entry fields, "Calibration complete.", the
\* configuration file) is not reached while the application runs, except
\* when the capture fails and calibrate_two_regions returns (None, None)
calibrate_regions ==
    /\ pc[0] = "gui"
    /\ calib_win # "open"
    /\ \E img \in Images :
          IF window_id /\ img # NoImage
          THEN /\ calib_win' = "open"
               /\ start_x' = 0
               /\ start_y' = 0
               /\ current_rect_id' = None
               /\ result' = <<None, None>>
               /\ region_index' = 0
               /\ Emit(Gui, <<>>)
          ELSE /\ UNCHANGED calibVars
               /\ Emit(Gui, IF window_id
                            THEN <<"Could not capture window for calibration.",
                                   "Calibration complete.">>
                            ELSE <<"You must find the PBO window first!">>)
    /\ UNCHANGED <<guiVars, last_direction, pc, cfgVars, loopVars, now, histVars>>

\* <ButtonPress-1> on the canvas
on_button_press ==
    /\ pc[0] = "gui"
    /\ calib_win = "open"
    /\ current_rect_id = None
    /\ \E x \in Coords, y \in Coords :
          /\ start_x' = x
          /\ start_y' = y
          /\ Emit(Pointer("press", x, y), <<>>)
    /\ current_rect_id' = <<"rect">>
    /\ UNCHANGED <<calib_win, result, region_index>>
    /\ UNCHANGED <<guiVars, last_direction, pc, cfgVars, loopVars, now, histVars>>

\* sorted([a, b])
Sorted2(a, b) == IF a <= b THEN <<a, b>> ELSE <<b, a>>

\* a box whose size is the signed extent of the drag
ReleasedBox_Signed(end_x, end_y) ==
    <<start_x, start_y, end_x - start_x, end_y - start_y>>

\* the box on_button_release records for a drag from the press point to (end_x, end_y)
ReleasedBox(end_x, end_y) ==
    LET xs == Sorted2(start_x, end_x)
        ys == Sorted2(start_y, end_y)
        w == xs[2] - xs[1]
        h == ys[2] - ys[1]
    IN  <<xs[1], ys[1], w, h>>

\* <ButtonRelease-1> on the canvas, after a press on it
on_button_release ==
    /\ pc[0] = "gui"
    /\ calib_win = "open"
    /\ current_rect_id # None
    /\ \E end_x \in Coords, end_y \in Coords :
          /\ result' = [result EXCEPT ![region_index + 1] = ReleasedBox(end_x, end_y)]
          /\ Emit(Pointer("release", end_x, end_y), <<"Calibrated box">>)
    /\ IF region_index = 1
       THEN calib_win' = "destroyed" /\ UNCHANGED region_index
       ELSE region_index' = region_index + 1 /\ UNCHANGED calib_win
    /\ current_rect_id' = None
    /\ UNCHANGED <<start_x, start_y>>
    /\ UNCHANGED <<guiVars, last_direction, pc, cfgVars, loopVars, now, histVars>>

\* start_bot with the window found and every region field an integer: the
\* thread is created and started
StartThread(w) ==
    /\ pc' = [pc EXCEPT ![w] = "start"]
    /\ pokeball_region' = [pokeball_region EXCEPT
                             ![w] = RegionOf(entry, "pb_x", "pb_y", "pb_w", "pb_h")]
    /\ name_region' = [name_region EXCEPT
                             ![w] = RegionOf(entry, "nm_x", "nm_y", "nm_w", "nm_h")]
    /\ move_choice' = [move_choice EXCEPT ![w] = move_choice_var]
    /\ bot_thread' = w
    /\ created' = w
    /\ targets_at_start' = [targets_at_start EXCEPT ![w] = target_pokemons]

start_bot ==
    /\ pc[0] = "gui"
    /\ UNCHANGED <<calibVars, last_direction>>
    /\ IF ~window_id
       THEN /\ Emit(Starting, <<"You must find the PBO window first!">>)
            /\ UNCHANGED <<guiVars, pc, cfgVars, loopVars, now, histVars>>
       ELSE /\ stop_event' = FALSE
            /\ pause_event' = FALSE
            /\ IF \A f \in FieldNames : IsIntText(entry[f])
               THEN /\ created < MaxWorkers
                    /\ StartThread(created + 1)
                    /\ Emit(Starting, <<"Starting bot...">>)
                    /\ UNCHANGED <<started_at, alerts, last_move_key, last_inject>>
               ELSE /\ Emit(Starting, <<"Error: Invalid integer in region fields.">>)
                    /\ UNCHANGED <<pc, cfgVars, bot_thread, created, histVars>>
            /\ UNCHANGED <<window_id, entry, target_pokemons, move_choice_var,
                           pause_btn, edits>>
            /\ UNCHANGED <<loopVars, now>>

pause_bot ==
    /\ pc[0] = "gui"
    /\ UNCHANGED <<calibVars, last_direction>>
    /\ IF ~pause_event
       THEN /\ pause_event' = TRUE
            /\ Emit(Gui, <<"Bot paused.">>)
            /\ pause_btn' = "Resume"
       ELSE /\ pause_event' = FALSE
            /\ Emit(Gui, <<"Bot resumed.">>)
            /\ pause_btn' = "Pause"
    /\ UNCHANGED <<window_id, entry, target_pokemons, move_choice_var, stop_event,
                   bot_thread, created, edits>>
    /\ UNCHANGED <<pc, cfgVars, loopVars, now, histVars>>

stop_bot ==
    /\ pc[0] = "gui"
    /\ UNCHANGED <<calibVars, last_direction>>
    /\ IF bot_thread # 0 /\ Alive(bot_thread)
       THEN /\ Emit(Stopping(pause_event), <<"Stopping bot...">>)
            /\ stop_event' = TRUE
       ELSE /\ Emit(Gui, <<>>)
            /\ UNCHANGED stop_event
    /\ pause_event' = FALSE
    /\ pause_btn' = "Pause"
    /\ UNCHANGED <<window_id, entry, target_pokemons, move_choice_var, bot_thread,
                   created, edits>>
    /\ UNCHANGED <<pc, cfgVars, loopVars, now, histVars>>

\* _poll_log_queue, one step per get_nowait(): the message is inserted into
\* the log widget, or the queue is empty and the handler returns
_poll_log_queue ==
    /\ pc[0] \in {"gui", "poll"}
    /\ pc[0] = "poll" \/ log_queue # <<>>
    /\ IF log_queue = <<>>
       THEN /\ pc' = [pc EXCEPT ![0] = "gui"]
            /\ UNCHANGED <<log_queue, log_text>>
       ELSE /\ pc' = [pc EXCEPT ![0] = "poll"]
            /\ log_text' = Append(log_text, Head(log_queue))
            /\ log_queue' = Tail(log_queue)
    /\ emit' = [Gui EXCEPT !.op = "poll"]
    /\ UNCHANGED <<log_sent, log_left>>
    /\ UNCHANGED <<guiVars, calibVars, last_direction, cfgVars, loopVars, now, histVars>>

----------------------------------------------------------------------------
(* BotThread.run, one step per blocking call or read of shared state.      *)

\* a direction carried over from the thread created before
FirstDir_Inherited(w) == IF w > 1 THEN last_dir[w - 1] ELSE 0

\* last_dir = [0]: the direction a run starts with
FirstDir(w) == 0

\* run() up to the loop: the locals
Begin(w) ==
    /\ pc[w] = "start"
    /\ UNCHANGED <<calibVars, last_direction>>
    /\ pc' = [pc EXCEPT ![w] = "check_stop"]
    /\ encounter_count' = [encounter_count EXCEPT ![w] = 0]
    /\ last_encounter_time' = [last_encounter_time EXCEPT ![w] = now]
    /\ next_check_time' = [next_check_time EXCEPT ![w] = now + WatchdogInterval]
    /\ last_dir' = [last_dir EXCEPT ![w] = FirstDir(w)]
    /\ started_at' = [started_at EXCEPT ![w] = now]
    /\ Emit(Out(w, "begin", <<>>, FALSE, {}, Empty), <<"Bot thread started.">>)
    /\ UNCHANGED <<guiVars, cfgVars, now>>
    /\ UNCHANGED <<alerts, last_move_key, last_inject, targets_at_start>>

\* while not self.stop_event.is_set(): ... ; self._log("Bot thread stopping.")
CheckStop(w) ==
    /\ pc[w] = "check_stop"
    /\ UNCHANGED <<calibVars, last_direction>>
    /\ pc' = [pc EXCEPT ![w] = IF stop_event THEN "stopped" ELSE "check_pause"]
    /\ Emit(Out(w, "check_stop", <<>>, FALSE, {}, Empty),
            IF stop_event THEN <<"Bot thread stopping.">> ELSE <<>>)
    /\ UNCHANGED <<guiVars, cfgVars, loopVars, now, histVars>>

\* a pause that starts the patrol over
PauseSleepStep_Reset(w) ==
    /\ now' = Elapse(PauseSleep)
    /\ pc' = [pc EXCEPT ![w] = "check_stop"]
    /\ Emit(Out(w, "pause_sleep", <<>>, FALSE, {}, Empty), <<>>)
    /\ last_dir' = [last_dir EXCEPT ![w] = 0]
    /\ UNCHANGED <<last_move_key, last_inject>>

\* if self.pause_event.is_set(): time.sleep(0.2); continue
PauseSleepStep(w) ==
    /\ now' = Elapse(PauseSleep)
    /\ pc' = [pc EXCEPT ![w] = "check_stop"]
    /\ Emit(Out(w, "pause_sleep", <<>>, FALSE, {}, Empty), <<>>)
    /\ UNCHANGED <<last_dir, last_move_key, last_inject>>

\* move_in_bushes(self.window_id, last_dir)
MoveStep(w) ==
    /\ now' = Elapse(MoveHold)
    /\ pc' = [pc EXCEPT ![w] = "detect"]
    /\ Emit(Out(w, "move", press_key_mac(BushKey(last_dir[w])), FALSE, {}, Empty), <<>>)
    /\ last_dir' = [last_dir EXCEPT ![w] = BushDir(last_dir[w])]
    /\ last_move_key' = [last_move_key EXCEPT ![w] = BushKey(last_dir[w])]
    /\ last_inject' = [last_inject EXCEPT ![w] = "move"]

CheckPause(w) ==
    /\ pc[w] = "check_pause"
    /\ UNCHANGED <<calibVars, last_direction>>
    /\ IF pause_event THEN PauseSleepStep(w) ELSE MoveStep(w)
    /\ UNCHANGED <<guiVars, cfgVars, encounter_count, last_encounter_time,
                   next_check_time>>
    /\ UNCHANGED <<started_at, alerts, targets_at_start>>

\* an encounter that resets the time of the last encounter and keeps the
\* deadline
Encounter_StaleDeadline(w) ==
    /\ pc' = [pc EXCEPT ![w] = "identify"]
    /\ encounter_count' = [encounter_count EXCEPT ![w] = encounter_count[w] + 1]
    /\ last_encounter_time' = [last_encounter_time EXCEPT ![w] = now']
    /\ UNCHANGED next_check_time

\* an encounter that is counted and leaves the watchdog as it was
Encounter_NoReset(w) ==
    /\ pc' = [pc EXCEPT ![w] = "identify"]
    /\ encounter_count' = [encounter_count EXCEPT ![w] = encounter_count[w] + 1]
    /\ UNCHANGED <<last_encounter_time, next_check_time>>

\* the indicator is red: count the encounter and reset the watchdog
Encounter(w) ==
    /\ pc' = [pc EXCEPT ![w] = "identify"]
    /\ encounter_count' = [encounter_count EXCEPT ![w] = encounter_count[w] + 1]
    /\ last_encounter_time' = [last_encounter_time EXCEPT ![w] = now']
    /\ next_check_time' = [next_check_time EXCEPT ![w] = now' + WatchdogInterval]

\* if is_reddish_in_region(self.window_id, self.window_bounds, self.pokeball_region)
Detect(w) ==
    /\ pc[w] = "detect"
    /\ UNCHANGED <<calibVars, last_direction>>
    /\ \E img \in Images, lat \in Latencies :
          LET region_img == capture_window_mac(img, pokeball_region[w])
          IN  /\ now' = Elapse(lat)
              /\ IF CvtColorRaises(region_img)
                 THEN /\ pc' = [pc EXCEPT ![w] = "crashed"]
                      /\ UNCHANGED <<encounter_count, last_encounter_time,
                                     next_check_time>>
                 ELSE IF is_reddish_in_region(region_img)
                 THEN /\ encounter_count[w] < MaxEncounters
                      /\ Encounter(w)
                 ELSE /\ pc' = [pc EXCEPT ![w] = "watchdog"]
                      /\ UNCHANGED <<encounter_count, last_encounter_time,
                                     next_check_time>>
              /\ Emit(Captured(Out(w, "detect", <<>>, FALSE, {"detector"}, Empty),
                                region_img),
                       IF ~CvtColorRaises(region_img) /\ is_reddish_in_region(region_img)
                       THEN <<"Wild Pokemon encountered!">> ELSE <<>>)
    /\ UNCHANGED <<guiVars, cfgVars, last_dir, histVars>>

\* defeat_wild_pokemon: the keys it posts
defeat_wild_pokemon(w) == press_key_mac(MoveMapGet(move_choice[w]))

\* the name matched a target: self._beep(...); break
TargetFound(w, im, lat, pokemon_name) ==
    /\ now' = Elapse(lat)
    /\ pc' = [pc EXCEPT ![w] = "alerted"]
    /\ Emit(Captured(Out(w, "identify", <<>>, TRUE, {"name"}, pokemon_name), im),
            <<"Encountered Pokemon", "Target Pokemon encountered! Stopping.",
              "Bot thread stopping.">>)
    /\ UNCHANGED last_inject

\* what run() logs for a fight: the name, and the move it was started with
FightLog == <<"Encountered Pokemon", "Defeating wild Pokemon using move">>

\* no target matched: self.defeat_wild_pokemon(); time.sleep(0.1)
Fight(w, im, lat, pokemon_name) ==
    /\ now' = Elapse(lat + FightHold + SettleSleep)
    /\ pc' = [pc EXCEPT ![w] = "watchdog"]
    /\ Emit(Captured(Out(w, "identify", defeat_wild_pokemon(w), FALSE, {"name"},
                          pokemon_name), im),
            FightLog)
    /\ last_inject' = [last_inject EXCEPT ![w] = "combat"]

\* the name of the encountered Pokemon, the target check, the alert or the fight
Identify(w) ==
    /\ pc[w] = "identify"
    /\ UNCHANGED <<calibVars, last_direction>>
    /\ \E img \in NameImages, text \in OcrOutputs, lat \in Latencies :
          LET im == capture_window_mac(img, name_region[w])
              pokemon_name == get_pokemon_name(im, text)
          IN  IF CvtColorRaises(im)
              THEN /\ now' = Elapse(lat)
                   /\ pc' = [pc EXCEPT ![w] = "crashed"]
                   /\ Emit(Captured(Out(w, "identify", <<>>, FALSE, {"name"}, Empty),
                                     im), <<>>)
                   /\ UNCHANGED last_inject
              ELSE IF AnySimilar(pokemon_name, target_pokemons)
              THEN TargetFound(w, im, lat, pokemon_name)
              ELSE Fight(w, im, lat, pokemon_name)
    /\ UNCHANGED <<guiVars, cfgVars, loopVars>>
    /\ UNCHANGED <<started_at, alerts, last_move_key, targets_at_start>>

\* the watchdog check of a tick: whether it alerts, and the next deadline
WatchdogAlerts(w) ==
    now >= next_check_time[w] /\ now - last_encounter_time[w] >= WatchdogInterval

\* a deadline that is not re-armed
WatchdogDeadline_Kept(w) == next_check_time[w]

\* a deadline re-armed from the deadline that passed
WatchdogDeadline_Periodic(w) ==
    IF now >= next_check_time[w] THEN next_check_time[w] + WatchdogInterval
    ELSE next_check_time[w]

WatchdogDeadline(w) ==
    IF now >= next_check_time[w] THEN now + WatchdogInterval ELSE next_check_time[w]

\* the watchdog check and the time.sleep(0.1) that ends the tick
Watchdog(w) ==
    /\ pc[w] = "watchdog"
    /\ UNCHANGED <<calibVars, last_direction>>
    /\ next_check_time' = [next_check_time EXCEPT ![w] = WatchdogDeadline(w)]
    /\ Emit(Out(w, "watchdog", <<>>, WatchdogAlerts(w), {}, Empty),
            IF WatchdogAlerts(w)
            THEN <<"Check PBO window for issues. No encounters detected.",
                   "No encounters beep">>
            ELSE <<>>)
    /\ alerts' = [alerts EXCEPT
                    ![w] = IF WatchdogAlerts(w) THEN Append(alerts[w], now) ELSE alerts[w]]
    /\ now' = Elapse(PollSleep)
    /\ pc' = [pc EXCEPT ![w] = "check_stop"]
    /\ UNCHANGED <<guiVars, cfgVars, last_dir, encounter_count, last_encounter_time>>
    /\ UNCHANGED <<started_at, last_move_key, last_inject, targets_at_start>>

WorkerStep(w) ==
    \/ Begin(w)
    \/ CheckStop(w)
    \/ CheckPause(w)
    \/ Detect(w)
    \/ Identify(w)
    \/ Watchdog(w)

----------------------------------------------------------------------------
(* pbobotplus.py: main() on the main thread. It has no operator controls,   *)
(* no watchdog and no alert sound; its regions, its target list and its    *)
(* combat key are constants of the script.                                 *)

\* frames with a red, a boundary and a dark pixel at the sampled coordinate
WinSnapshots == { <<<<200, 50, 50>>>>, <<<<151, 99, 99>>>>, <<<<150, 0, 0>>>>,
                  <<<<200, 100, 0>>>>, <<<<30, 30, 30>>>> }
\* capture_window raises when the window is gone
WinImages == WinSnapshots \cup {NoImage}

\* is_predefined_coord_reddish: the pixel (0, 0) of the crop at the coordinate
is_predefined_coord_reddish(img) ==
    LET px == img[1]
    IN  px[1] > WinRedAbove /\ px[2] < WinGreenBlueBelow /\ px[3] < WinGreenBlueBelow

\* press_key(hwnd, key_code): the key posted, by name (0x25, 0x27, 0x33)
press_key(key_code) == <<key_code>>

\* move_in_bushes(hwnd): the key for last_direction, and the direction after it
move_in_bushes_key == IF last_direction = "right" THEN "left_arrow" ELSE "right_arrow"
move_in_bushes_dir == IF last_direction = "right" THEN "left" ELSE "right"

\* everything main() leaves alone
WinFrame ==
    UNCHANGED <<guiVars, calibVars, logVars, cfgVars, loopVars, started_at, alerts,
                targets_at_start>>

\* hwnd = get_game_hwnd(GAME_WINDOW_TITLE): raises when no window has the title
get_game_hwnd ==
    /\ pc[0] = "main"
    /\ \E found \in BOOLEAN :
          pc' = [pc EXCEPT ![0] = IF found THEN "move" ELSE "crashed"]
    /\ emit' = Out(0, "main", <<>>, FALSE, {}, Empty)
    /\ UNCHANGED <<last_direction, now, last_move_key, last_inject>>
    /\ WinFrame

\* while True: move_in_bushes(hwnd)
WinMove ==
    /\ pc[0] = "move"
    /\ pc' = [pc EXCEPT ![0] = "detect"]
    /\ emit' = Out(0, "move", press_key(move_in_bushes_key), FALSE, {}, Empty)
    /\ last_direction' = move_in_bushes_dir
    /\ last_move_key' = [last_move_key EXCEPT ![0] = move_in_bushes_key]
    /\ last_inject' = [last_inject EXCEPT ![0] = "move"]
    /\ now' = Elapse(WinMoveHold)
    /\ WinFrame

\* if is_predefined_coord_reddish(hwnd, *REDDISH_CHECK_COORD)
WinDetect ==
    /\ pc[0] = "detect"
    /\ \E img \in WinImages, lat \in Latencies :
          /\ now' = Elapse(lat)
          /\ pc' = [pc EXCEPT ![0] =
                      IF img = NoImage THEN "crashed"
                      ELSE IF is_predefined_coord_reddish(img) THEN "identify"
                      ELSE "move"]
          /\ emit' = Captured(Out(0, "detect", <<>>, FALSE, {"detector"}, Empty), img)
    /\ UNCHANGED <<last_direction, last_move_key, last_inject>>
    /\ WinFrame

\* pokemon_name = get_pokemon_name(hwnd); the target check; break, or
\* defeat_wild_pokemon(hwnd) and time.sleep(0.25)
WinIdentify ==
    /\ pc[0] = "identify"
    /\ \E img \in WinImages, text \in WinOcrOutputs, lat \in Latencies :
          LET pokemon_name == Strip(text)
          IN  IF img = NoImage
              THEN /\ now' = Elapse(lat)
                   /\ pc' = [pc EXCEPT ![0] = "crashed"]
                   /\ emit' = Captured(Out(0, "identify", <<>>, FALSE, {"name"}, Empty),
                                       img)
                   /\ UNCHANGED last_inject
              ELSE IF AnySimilar(pokemon_name, target_pokemons)
              THEN /\ now' = Elapse(lat)
                   /\ pc' = [pc EXCEPT ![0] = "alerted"]
                   /\ emit' = Captured(Out(0, "identify", <<>>, FALSE, {"name"},
                                           pokemon_name), img)
                   /\ UNCHANGED last_inject
              ELSE /\ now' = Elapse(lat + WinFightHold + WinSettleSleep)
                   /\ pc' = [pc EXCEPT ![0] = "move"]
                   /\ emit' = Captured(Out(0, "identify", press_key("3"), FALSE,
                                           {"name"}, pokemon_name), img)
                   /\ last_inject' = [last_inject EXCEPT ![0] = "combat"]
    /\ UNCHANGED <<last_direction, last_move_key>>
    /\ WinFrame

WinStep ==
    \/ get_game_hwnd
    \/ WinMove
    \/ WinDetect
    \/ WinIdentify

\* the state in which pbobotplus.py calls main()
InitWin ==
    /\ log_queue = <<>>
    /\ log_text = <<>>
    /\ log_sent = <<>>
    /\ log_left = 0
    /\ window_id = FALSE
    /\ entry = [f \in FieldNames |-> "20"]
    /\ target_pokemons = <<Electivire, Dustox>>
    /\ move_choice_var = "1"
    /\ stop_event = FALSE
    /\ pause_event = FALSE
    /\ pause_btn = "Pause"
    /\ bot_thread = 0
    /\ created = MaxWorkers
    /\ edits = MaxEdits
    /\ calib_win = "none"
    /\ start_x = 0
    /\ start_y = 0
    /\ current_rect_id = None
    /\ result = <<None, None>>
    /\ region_index = 0
    /\ last_direction = "right"
    /\ pc = [w \in Threads |-> IF w = 0 THEN "main" ELSE "new"]
    /\ pokeball_region = [w \in Workers |-> <<0, 0, 0, 0>>]
    /\ name_region = [w \in Workers |-> <<0, 0, 0, 0>>]
    /\ move_choice = [w \in Workers |-> "1"]
    /\ last_dir = [w \in Workers |-> 0]
    /\ encounter_count = [w \in Workers |-> 0]
    /\ last_encounter_time = [w \in Workers |-> 0]
    /\ next_check_time = [w \in Workers |-> 0]
    /\ now = ClockMax
    /\ emit = Out(0, "main", <<>>, FALSE, {}, Empty)
    /\ started_at = [w \in Workers |-> 0]
    /\ alerts = [w \in Workers |-> <<>>]
    /\ last_move_key = [w \in Threads |-> "none"]
    /\ last_inject = [w \in Threads |-> "none"]
    /\ targets_at_start = [w \in Workers |-> <<>>]

----------------------------------------------------------------------------
(* Specifications.                                                         *)

ControlStep ==
    \/ find_pbo_window
    \/ start_bot
    \/ pause_bot
    \/ stop_bot

ConfigStep ==
    \/ edit_region_field
    \/ on_move_changed
    \/ add_pokemon
    \/ remove_pokemon

Next == ControlStep \/ \E w \in Workers : WorkerStep(w)

Spec == Init /\ [][Next]_vars

\* the threads of the process are scheduled fairly
FairSpec == Spec /\ \A w \in Workers : WF_vars(WorkerStep(w))

\* one thread, with the operator editing the configuration
InitConfig == InitWith(ClockMax, MaxWorkers - 1, 0, ConfigMoves)
NextConfig == Next \/ ConfigStep
SpecConfig == InitConfig /\ [][NextConfig]_vars

\* one thread, started with a target list loaded from the configuration file
InitMatch == InitFrom(ClockMax, MaxWorkers - 1, MaxEdits, {"1"}, ConfigTargets, 0)
SpecMatch == InitMatch /\ [][Next]_vars

\* one thread and the log channel, with the main thread polling the queue
InitLog == InitFrom(ClockMax, MaxWorkers - 1, MaxEdits, {"1"}, {<<Garchomp>>}, MaxLog)
NextLog == Next \/ _poll_log_queue
SpecLog == InitLog /\ [][NextLog]_vars

\* the operator calibrating, with no thread started
InitCalib == InitWith(ClockMax, MaxWorkers, MaxEdits, {"1"})
NextCalib ==
    \/ find_pbo_window
    \/ calibrate_regions
    \/ on_button_press
    \/ on_button_release
SpecCalib == InitCalib /\ [][NextCalib]_vars

\* either program of the repository: PBObotMac.py with one thread and the
\* operator editing the configuration, or pbobotplus.py
InitBoth == InitConfig \/ InitWin
NextBoth == NextConfig \/ WinStep
SpecBoth == InitBoth /\ [][NextBoth]_vars

\* two threads one after the other or side by side, the configuration left
\* as it was
InitRuns == InitWith(ClockMax, MaxWorkers - 2, MaxEdits, {"1"})
SpecRuns == InitRuns /\ [][Next]_vars

\* either program, with the configuration left as it was loaded
InitLoops == InitMatch \/ InitWin
NextLoops == Next \/ WinStep
SpecLoops == InitLoops /\ [][NextLoops]_vars

\* one thread from clock reading 0, in the runs in which the operator never
\* pauses and the detector never reports an encounter
InitWatch == InitWith(0, MaxWorkers - 1, MaxEdits, {"1"})
NextWatch ==
    \/ find_pbo_window
    \/ start_bot
    \/ stop_bot
    \/ \E w \in Workers :
          \/ Begin(w)
          \/ CheckStop(w)
          \/ CheckPause(w)
          \/ Detect(w) /\ pc'[w] # "identify"
          \/ Watchdog(w)
SpecWatch == InitWatch /\ [][NextWatch]_vars

\* one thread from clock reading 0, in the runs in which the operator pauses
\* and resumes around the first deadline of the watchdog and the detector
\* reports encounters in the first ticks
NextClock ==
    \/ find_pbo_window
    \/ start_bot
    \/ pause_bot /\ PauseFrom <= now /\ now <= PauseUntil
    \/ \E w \in Workers :
          \/ Begin(w)
          \/ CheckStop(w)
          \/ CheckPause(w)
          \/ Detect(w) /\ (pc'[w] = "identify" => now <= EncounterUntil)
          \/ Identify(w)
          \/ Watchdog(w)
SpecClock == InitWatch /\ [][NextClock]_vars

----------------------------------------------------------------------------
(* Properties.                                                             *)

\* the step is one of thread w
StepBy(w) == emit'.who = w

\* the name matches at least one entry of the list
Matches(name, targets) == \E i \in 1..Len(targets) : _is_similar(name, targets[i])

\* thread w posts no key, makes no query, plays no alert, and keeps the
\* direction, the encounter count and the watchdog state
Quiet(w) ==
    /\ emit'.keys = <<>>
    /\ emit'.queries = {}
    /\ ~emit'.beep
    /\ last_dir'[w] = last_dir[w]
    /\ encounter_count'[w] = encounter_count[w]
    /\ last_encounter_time'[w] = last_encounter_time[w]
    /\ next_check_time'[w] = next_check_time[w]

\* C1: in the loop of either program, when the detector was active in a tick
\* and the recognised name matches an entry of the target list, the loop plays
\* the alert sound, posts no key in that step and ends alerted; an alerted
\* thread takes no further step, so no movement key, combat key or detector
\* query follows the match.
C1_TargetMatchAlertsAndEnds ==
    [][\A w \in Threads :
          /\ (/\ pc[w] = "identify"
              /\ StepBy(w)
              /\ pc'[w] # "crashed"
              /\ Matches(emit'.name, target_pokemons))
             => (emit'.beep /\ emit'.keys = <<>> /\ pc'[w] = "alerted")
          /\ pc[w] = "alerted" => (pc'[w] = "alerted" /\ ~StepBy(w))]_vars

\* C2: in the loop of either program, when the detector was active and the
\* recognised name matches no entry of the target list, exactly one key is
\* posted in that step and the loop goes on: the key of the move the thread
\* was started with (for the moves the dropdown offers) in PBObotMac.py, the
\* key the script configures in pbobotplus.py; the next key or query of the
\* thread after it is one movement key.
C2_NoMatchFightsOnceThenMoves ==
    [][\A w \in Threads :
          /\ (/\ pc[w] = "identify"
              /\ StepBy(w)
              /\ pc'[w] # "crashed"
              /\ ~Matches(emit'.name, target_pokemons))
             => /\ Len(emit'.keys) = 1
                /\ w = 0 => emit'.keys = <<"3">>
                /\ (w \in Workers /\ move_choice[w] \in MoveOptions)
                      => emit'.keys = <<move_choice[w]>>
                /\ ~emit'.beep
                /\ pc'[w] = (IF w = 0 THEN "move" ELSE "watchdog")
          /\ (/\ StepBy(w)
              /\ last_inject[w] = "combat"
              /\ (emit'.keys # <<>> \/ emit'.queries # {}))
             => /\ emit'.op = "move"
                /\ Len(emit'.keys) = 1
                /\ emit'.keys[1] \in MoveKeys]_vars

C2_Witness ==
    \E w \in Workers :
        /\ emit.who = w
        /\ emit.op = "move"
        /\ encounter_count[w] = 1
        /\ move_choice[w] = "r"
        /\ last_inject[w] = "move"

\* C3: once Stop is requested while a thread is alive, that thread
\* eventually leaves its loop, whatever the operator does next.
C3_StopEventuallyExits ==
    \A w \in Workers : (stop_event /\ Alive(w)) ~> Exited(w)

\* C4 as stated: while the paused flag is set and stop is not requested, no
\* step of the loop posts a key, queries the detector or the name matcher,
\* plays an alert or changes the direction, the count or the watchdog state.
C4_PausedFlagFreezesLoop ==
    [][\A w \in Workers :
          (pc[w] \in Running /\ pause_event /\ ~stop_event /\ StepBy(w))
             => Quiet(w)]_vars

\* C4: a pause check at the top of a tick that finds the paused flag set makes
\* no transition: it posts no key, makes no query, plays no alert, keeps the
\* direction, the count and the watchdog state, and goes back to the stop check.
C4_PauseCheckFreezesLoop ==
    [][\A w \in Workers :
          (pc[w] = "check_pause" /\ pause_event /\ StepBy(w))
             => (Quiet(w) /\ pc'[w] = "check_stop")]_vars

C4_Witness ==
    \E w \in Workers :
        /\ emit.who = w
        /\ emit.op = "pause_sleep"
        /\ pause_event
        /\ last_dir[w] = 1
        /\ encounter_count[w] = 1

\* C5: in either program the directional keys of one run strictly alternate
\* and start with the key of the program's initial direction (right in
\* PBObotMac.py, left in pbobotplus.py), whatever happens between two
\* movements; a directional key is only ever posted by the movement step.
C5_MovementAlternates ==
    [][\A w \in Threads :
          /\ (StepBy(w) /\ emit'.op = "move")
             => /\ Len(emit'.keys) = 1
                /\ emit'.keys[1] \in MoveKeys
                /\ IF last_move_key[w] = "none"
                   THEN emit'.keys[1] = (IF w = 0 THEN "left_arrow" ELSE "right_arrow")
                   ELSE emit'.keys[1] # last_move_key[w]
          /\ (StepBy(w) /\ \E i \in 1..Len(emit'.keys) : emit'.keys[i] \in MoveKeys)
             => emit'.op = "move"]_vars

C5_Witness ==
    \E w \in Workers :
        /\ emit.who = w
        /\ emit.op = "move"
        /\ emit.keys = <<"left_arrow">>
        /\ encounter_count[w] = 1
        /\ last_inject[w] = "move"

\* the clock reading from which the next "no encounters" alert of thread w is
\* due in a run without encounter: 10 s after the start, or after the last alert
AlertDue(w) ==
    IF alerts[w] = <<>> THEN started_at[w] + WatchdogInterval
    ELSE alerts[w][Len(alerts[w])] + WatchdogInterval

\* C6 as stated: in a run without encounter and without pause the first
\* "no encounters" alert is at t0 + 10 s and the second at t0 + 20 s.
C6_AlertsAtExactTimes ==
    \A w \in Workers :
        /\ Len(alerts[w]) >= 1 => alerts[w][1] = started_at[w] + WatchdogInterval
        /\ Len(alerts[w]) >= 2 => alerts[w][2] = started_at[w] + 2 * WatchdogInterval

\* C6: in a run without encounter and without pause, a watchdog check alerts
\* exactly when its clock reading is at least 10 s after the start (first
\* alert) or after the previous alert (later ones): no alert before t0 + 10 s,
\* none within 10 s of the one before, so the second is not before t0 + 20 s.
C6_AlertsAtFirstCheckPastDeadline ==
    [][\A w \in Workers :
          (pc[w] = "watchdog" /\ StepBy(w))
             => /\ emit'.beep <=> now >= AlertDue(w)
                /\ emit'.beep => alerts'[w] = Append(alerts[w], now)
                /\ Len(alerts'[w]) >= 2
                      => alerts'[w][2] >= started_at[w] + 2 * WatchdogInterval]_vars

C6_Witness ==
    \E w \in Workers :
        /\ Len(alerts[w]) = 2
        /\ alerts[w][1] > started_at[w] + WatchdogInterval
        /\ encounter_count[w] = 0
        /\ emit.op = "watchdog"
        /\ emit.beep

\* C7: a thread leaves its loop only on a stop check that finds stop
\* requested, or on a target match in the current tick.
C7_LoopEndsOnlyOnStopOrMatch ==
    [][\A w \in Workers :
          (Alive(w) /\ ~Alive(w)')
             => \/ pc[w] = "check_stop" /\ pc'[w] = "stopped" /\ stop_event
                \/ /\ pc[w] = "identify"
                   /\ pc'[w] = "alerted"
                   /\ Matches(emit'.name, target_pokemons)]_vars

\* C8: at most one thread executes the loop at any moment.
C8_AtMostOneWorker ==
    Cardinality({w \in Workers : pc[w] \in Running}) <= 1

\* C9: a running thread uses the regions, the move and the target list read
\* when it was started: it alerts exactly on a name that matches the target
\* list of that moment, and its regions and move do not change while it runs.
C9_ConfigReadAtStart ==
    [][\A w \in Workers :
          /\ (pc[w] = "identify" /\ StepBy(w) /\ pc'[w] # "crashed")
             => (pc'[w] = "alerted" <=> Matches(emit'.name, targets_at_start[w]))
          /\ Alive(w)
             => /\ pokeball_region'[w] = pokeball_region[w]
                /\ name_region'[w] = name_region[w]
                /\ move_choice'[w] = move_choice[w]]_vars

\* C10: no thread is ever created with an indicator region or a name region
\* of zero width or zero height.
C10_StartRefusesDegenerateRegion ==
    \A w \in Workers :
        pc[w] # "new"
           => ~Degenerate(pokeball_region[w]) /\ ~Degenerate(name_region[w])

\* the loop of thread w goes on after the branch on the detector: to the
\* watchdog check in PBObotMac.py, to the next tick in pbobotplus.py
GoesOn(w) == pc'[w] = (IF w = 0 THEN "move" ELSE "watchdog")

\* C11: in the loop of either program, when the capture of the indicator
\* region returns no image, the detector step does not raise: the loop goes
\* on, no encounter is counted and no key is posted, and the name is not read.
C11_FailedCaptureIsMissedTick ==
    [][\A w \in Threads :
          (pc[w] = "detect" /\ StepBy(w) /\ emit'.capture = <<NoImage>>)
             => /\ GoesOn(w)
                /\ emit'.keys = <<>>
                /\ emit'.queries = {"detector"}
                /\ w \in Workers => encounter_count'[w] = encounter_count[w]]_vars

\* C12: when the indicator is active and the name capture returns no image or
\* the recognised text is empty, the tick is handled like one without
\* encounter: no key is posted for it and the loop goes on to the watchdog check.
C12_FailedNameIsNoEncounter ==
    [][\A w \in Workers :
          (/\ pc[w] = "identify"
           /\ StepBy(w)
           /\ (emit'.capture = <<NoImage>> \/ emit'.name = Empty))
             => (emit'.keys = <<>> /\ pc'[w] = "watchdog")]_vars

Min2(a, b) == IF a < b THEN a ELSE b
Abs(a) == IF a < 0 THEN 0 - a ELSE a

\* C13: the region a release at (x2, y2) records for a press at (x1, y1) is
\* x = min(x1, x2), y = min(y1, y2), width = |x2 - x1|, height = |y2 - y1|,
\* which is the same for the two directions of a drag, and its width and
\* height are not negative.
C13_DragIsNormalized ==
    [][emit'.op = "release"
          => LET x2 == emit'.event[1]
                 y2 == emit'.event[2]
                 box == result'[region_index + 1]
             IN  /\ box = <<Min2(start_x, x2), Min2(start_y, y2),
                            Abs(x2 - start_x), Abs(y2 - start_y)>>
                 /\ box[3] >= 0
                 /\ box[4] >= 0]_vars

C13_Witness ==
    /\ emit.op = "release"
    /\ emit.event[1] < start_x
    /\ emit.event[2] < start_y
    /\ calib_win = "destroyed"
    /\ result[2] = <<emit.event[1], emit.event[2], start_x - emit.event[1],
                     start_y - emit.event[2]>>

\* the band of the encounter indicator, bounds inclusive
InBand(px) ==
    /\ 150 <= px[1] /\ px[1] <= 255
    /\ 0 <= px[2] /\ px[2] <= 100
    /\ 0 <= px[3] /\ px[3] <= 100

\* C14: the encounter detector is active iff at least one pixel of the
\* captured region has 150 <= R <= 255, 0 <= G <= 100 and 0 <= B <= 100, every
\* bound inclusive: a region with a pixel at (150, 0, 0) is active, a region
\* whose pixels are all outside the band is not.
C14_DetectorBandIsInclusive ==
    [][\A w \in Threads :
          (pc[w] = "detect" /\ StepBy(w) /\ emit'.capture # <<NoImage>>)
             => LET img == emit'.capture[1]
                IN  pc'[w] = "identify" <=> \E i \in 1..Len(img) : InBand(img[i])]_vars

\* C15: an empty recognised name matches no target of a non-empty target
\* list, whatever strings the list holds, so the loop never ends ALERTED on
\* an empty recognised name.
C15_EmptyNameMatchesNothing ==
    [][\A w \in Workers :
          (/\ pc[w] = "identify" /\ StepBy(w)
           /\ emit'.name = Empty
           /\ target_pokemons # <<>>)
             => /\ \A i \in 1..Len(target_pokemons) :
                      ~IsSimilarDef(Empty, target_pokemons[i])
                /\ pc'[w] # "alerted"
                /\ ~emit'.beep]_vars

\* the messages of seq that thread w put
FromThread(seq, w) == SelectSeq(seq, LAMBDA m : m[1] = w)
IsPrefix(a, b) == Len(a) <= Len(b) /\ SubSeq(b, 1, Len(a)) = a

\* C16: the messages of the loop are displayed in the order the loop emitted
\* them, each once: what the log widget shows of a thread is a prefix of what
\* the thread emitted, and the rest is waiting in the queue in the same order,
\* also while the operator's handlers put their own messages on the queue.
C16_LoopLogInOrderOnce ==
    \A w \in Workers :
       /\ IsPrefix(FromThread(log_text, w), FromThread(log_sent, w))
       /\ FromThread(log_text, w) \o FromThread(log_queue, w) = FromThread(log_sent, w)

C16_Witness ==
    \E i, j, k \in 1..Len(log_text) :
       /\ i < j /\ j < k
       /\ log_text[i][1] \in Workers
       /\ log_text[j][1] = 0
       /\ log_text[k][1] = log_text[i][1]

\* C17: two consecutive "no encounters" alerts of a thread are at least 10 s
\* apart, also when the check that alerts comes several ticks, or a pause,
\* after its deadline.
C17_AlertsTenSecondsApart ==
    \A w \in Workers :
       \A i \in 1..(Len(alerts[w]) - 1) :
          alerts[w][i + 1] - alerts[w][i] >= WatchdogInterval

C17_Witness ==
    \E w \in Workers :
       /\ Len(alerts[w]) = 2
       /\ encounter_count[w] = 0
       /\ alerts[w][1] >= started_at[w] + WatchdogInterval + 2 * PauseSleep
       /\ alerts[w][2] < ClockMax

\* C18: a confirmed encounter adds exactly 1 to encounter_count and sets
\* last_encounter_time to the clock reading and next_check_time to 10 s after
\* it; and no "no encounters" alert comes less than 10 s after the latest
\* confirmed encounter.
C18_EncounterResetsWatchdog ==
    [][\A w \in Workers :
          /\ (pc[w] = "detect" /\ pc'[w] = "identify")
                => /\ encounter_count'[w] = encounter_count[w] + 1
                   /\ last_encounter_time'[w] = now'
                   /\ next_check_time'[w] = now' + WatchdogInterval
          /\ (pc[w] = "watchdog" /\ StepBy(w) /\ emit'.beep /\ encounter_count[w] > 0)
                => now - last_encounter_time[w] >= WatchdogInterval]_vars

C18_Witness ==
    \E w \in Workers :
       /\ emit.who = w /\ emit.op = "watchdog" /\ emit.beep
       /\ encounter_count[w] = 1
       /\ last_encounter_time[w] > started_at[w]
       /\ alerts[w][1] >= last_encounter_time[w] + WatchdogInterval

\* C19: every tick that passed the stop check and the pause check evaluates
\* the watchdog check, after its encounter branch (the detector query and, on
\* an encounter, the name match and the response); no such tick skips it.
C19_EveryTickChecksWatchdog ==
    [][\A w \in Workers :
          /\ (pc[w] = "detect" /\ StepBy(w)) => pc'[w] \in {"identify", "watchdog"}
          /\ (pc[w] = "identify" /\ StepBy(w)) => pc'[w] = "watchdog"]_vars

\* C20: once stop is requested and stays requested a thread starts no new
\* tick (a stop check that finds the request ends the loop without a key), and
\* a thread that is paused, between two ticks, when Stop is requested injects
\* no key after the request.
C20_StopEndsWithinOneTick ==
    [][\A w \in Workers :
          StepBy(w)
             => /\ (pc[w] = "check_stop" /\ stop_event)
                      => (pc'[w] = "stopped" /\ emit'.keys = <<>>)
                /\ (emit.op = "stop_paused" /\ pc[w] \in {"check_stop", "check_pause"})
                      => emit'.keys = <<>>]_vars

\* C21: the direction is reset only when a run starts. A pause leaves the
\* direction and the last movement key as they were, so the first movement
\* key after a resume is the opposite of the last one before the pause; the
\* direction changes only at a movement; and the first movement key of every
\* run is the right arrow, whatever key an earlier run ended on.
C21_DirectionResetsOnlyAtStart ==
    [][\A w \in Workers :
          StepBy(w)
             => /\ emit'.op = "pause_sleep"
                      => (last_dir'[w] = last_dir[w]
                          /\ last_move_key'[w] = last_move_key[w])
                /\ last_dir'[w] # last_dir[w] => emit'.op \in {"move", "begin"}
                /\ emit'.op = "begin" => last_move_key[w] = "none"
                /\ emit'.op = "move"
                      => emit'.keys = <<IF last_move_key[w] = "none" THEN "right_arrow"
                                         ELSE IF last_move_key[w] = "right_arrow"
                                         THEN "left_arrow" ELSE "right_arrow">>]_vars

C21_Witness ==
    \E v \in Workers, w \in Workers :
       /\ v < w
       /\ Exited(v)
       /\ last_move_key[v] = "right_arrow"
       /\ emit.who = w /\ emit.op = "move"
       /\ emit.keys = <<"right_arrow">>
       /\ last_dir[w] = 1

\* C22: a fight whose configured combat action is none of "1", "2", "3", "4",
\* "r" logs the anomaly (a message other than those of an ordinary fight),
\* posts the default key "1" exactly once and lets the tick go on.
C22_UnknownMoveLoggedAndDefaulted ==
    [][\A w \in Workers :
          (/\ pc[w] = "identify" /\ StepBy(w)
           /\ pc'[w] \notin {"crashed", "alerted"}
           /\ move_choice[w] \notin {"1", "2", "3", "4", "r"})
             => /\ emit'.keys = <<"1">>
                /\ pc'[w] = "watchdog"
                /\ \E i \in 1..Len(emit'.logs) :
                      emit'.logs[i] \notin {"Encountered Pokemon",
                                            "Defeating wild Pokemon using move"}]_vars

\* the entry fields of the indicator region and of the name region, in the
\* order x, y, w, h, and str(n) of a coordinate
PbFields == <<"pb_x", "pb_y", "pb_w", "pb_h">>
NmFields == <<"nm_x", "nm_y", "nm_w", "nm_h">>
StrOf(n) == CASE n = -1 -> "-1" [] n = 0 -> "0" [] n = 1 -> "1" [] n = 2 -> "2"
              [] n = 3 -> "3" [] n = 4 -> "4" [] OTHER -> "?"

\* C23: in a calibration session the first release records the first
\* rectangle and the second release the second one, leaving the first as it
\* is, and ends the session; no press or release is handled outside an open
\* session; and when the session has ended the first rectangle is the
\* indicator region and the second the name region of the region fields.
C23_TwoRectanglesBecomeRegions ==
    [][/\ emit'.op = "release"
          => /\ result'[region_index + 1] # None
             /\ region_index = 1 => (result'[1] = result[1] /\ calib_win' = "destroyed")
             /\ region_index = 0 => (result'[2] = None /\ calib_win' = "open")
       /\ emit'.op \in {"press", "release"} => calib_win = "open"
       /\ calib_win = "destroyed"
          => \A i \in 1..4 : /\ entry[PbFields[i]] = StrOf(result[1][i])
                             /\ entry[NmFields[i]] = StrOf(result[2][i])]_vars

\* C24: while a thread is in its loop next_check_time is at least 10 s after
\* last_encounter_time; so a watchdog check that finds the deadline reached
\* alerts, and the deadline is never advanced without an alert.
C24_DeadlineNeverBeforeEncounterPlusTen ==
    [][\A w \in Workers :
          /\ pc'[w] \in Running
                => next_check_time'[w] >= last_encounter_time'[w] + WatchdogInterval
          /\ (pc[w] = "watchdog" /\ StepBy(w))
                => /\ now >= next_check_time[w] => emit'.beep
                   /\ next_check_time'[w] # next_check_time[w] => emit'.beep]_vars

C24_Witness ==
    \E w \in Workers :
       /\ emit.who = w /\ emit.op = "watchdog" /\ emit.beep
       /\ encounter_count[w] = 1
       /\ Len(alerts[w]) = 1
       /\ next_check_time[w] = alerts[w][1] + WatchdogInterval
       /\ next_check_time[w] > last_encounter_time[w] + 2 * WatchdogInterval

\* C25: a Start that is rejected (window not found, or a region field that
\* is no integer) creates no thread and leaves the stop flag and the pause
\* flag as they were: a paused thread stays paused, a thread asked to stop
\* still stops.
C25_RejectedStartChangesNothing ==
    [][(emit'.op = "start_bot" /\ created' = created)
          => /\ pc' = pc
             /\ bot_thread' = bot_thread
             /\ stop_event' = stop_event
             /\ pause_event' = pause_event]_vars

\* C26: the pause button shows "Resume" exactly when the pause flag is set,
\* after any sequence of Start, Pause/Resume and Stop.
C26_PauseLabelTracksFlag ==
    (pause_btn = "Resume") <=> pause_event

====
